---- MODULE Spec2Model ----
(***************************************************************************)
(* Model of src/src/codex-client.js (class CodexAppServerClient): the      *)
(* supervisor of the codex app-server child process, its JSON-RPC          *)
(* correlation table, the readiness handshake, the serialized turn queue   *)
(* and the per-turn notification state machine.                            *)
(*                                                                         *)
(* Scheduling follows the Node.js event loop.  A macrotask (a timer, a     *)
(* process event, a chunk of stdout lines, a call from the HTTP layer)     *)
(* runs only when the promise-job queue `micro` is empty; promise          *)
(* continuations are the records of `micro`, run in FIFO order.  The       *)
(* lines of one stdout chunk are emitted by readline synchronously, so a   *)
(* line may follow another line while continuations are still queued       *)
(* (`burst` counts the lines of the current chunk).                        *)
(***************************************************************************)
EXTENDS Integers, Sequences, FiniteSets, TLC

\* ------------------------------------------------------------- bounds
MaxSpawn == 3        \* child processes spawned in one run
MaxReq   == 4        \* request ids allocated in one run
MaxExt   == 1        \* ensureReady() calls made by the embedding program
MaxChunk == 2        \* stdout lines delivered in one chunk
MaxTimers == 2       \* restart timers pending at once
MaxTurns == 2        \* turns submitted to queueTurn in one run
MaxText  == 2        \* characters of incremental text accumulated by one turn

Children == 1..MaxSpawn
ReqIds   == 1..MaxReq
Threads  == {1, 2}   \* thread ids the process may report (0: none)

\* callers of ensureReady: the embedding program, a restart timer, turn k
ExtCaller   == 0
TimerCaller == -1

VARIABLES
  child,            \* this.child: 0 (null) or a child id
  proc,             \* per child: "none" | "run" | "killed" | "exited" | "failed"
  readline,         \* this.readline: the child whose stdout it reads, 0 = null
  rlOpen,           \* children whose readline interface is still open
  pendingRequests,  \* this.pendingRequests: id -> [method, own, stale]
  reqTimers,        \* live request timers: id -> [method, own, stale]
  requestCounter,   \* this.requestCounter
  threadId,         \* this.threadId, 0 = null / undefined
  startPromise,     \* this.startPromise: [st: none|pending|ok|err, msg]
  startReject,      \* this._startReject is set
  startWaiters,     \* callers awaiting this.startPromise, the creator first
  isStopping,       \* this.isStopping
  autoRestart,      \* this.config.autoRestart
  restartTimers,    \* restart timers scheduled and not yet fired
  micro,            \* the promise-job queue
  burst,            \* lines of the current stdout chunk handled so far
  extCalls,         \* ensureReady() calls made by the embedding program
  turns,            \* the turns submitted to queueTurn, in order: [phase, out]
  tw,               \* per turn: the closure state of its turn waiter
  issued,           \* the process has reported thread id 1 (see Line)
  fired,            \* per request id: calls made to its resolve / reject
  hs,               \* handshake frames written since this.startPromise was created
  wire,             \* frames written to a child's stdin, in order: request id, 0 for a notification
  replies,          \* replies written to server-initiated requests, in order
  crashed,          \* an exception nobody caught has ended the program
  unhandled         \* turns whose waiter promise was rejected in this turn of the
                    \* event loop and has no handler yet

vars == <<child, proc, readline, rlOpen, pendingRequests, reqTimers,
          requestCounter, threadId, startPromise, startReject, startWaiters,
          isStopping, autoRestart, restartTimers, micro, burst, extCalls,
          turns, tw, issued, fired, hs, wire, replies, crashed, unhandled>>

\* ------------------------------------------------------------ values
Ok(v)   == [st |-> "ok",  val |-> v, msg |-> ""]
Err(m)  == [st |-> "err", val |-> 0, msg |-> m]

NoPromise == [st |-> "none", msg |-> ""]

\* a promise job: k names the continuation
Job(k, who, id, m, stale, out) ==
  [k |-> k, who |-> who, id |-> id, m |-> m, stale |-> stale, out |-> out]

\* a turn's outcome, as delivered to the caller of queueTurn; usage <<>> is null
NoOut == [st |-> "none", text |-> "", usage |-> <<>>, msg |-> ""]
Resolved(text, usage) == [st |-> "ok", text |-> text, usage |-> usage, msg |-> ""]
Rejected(msg) == [st |-> "err", text |-> "", usage |-> <<>>, msg |-> msg]

\* a turn whose outcome was delivered before the next turn started: the
\* outcome is with its caller and is not recorded any longer
Delivered == [phase |-> "done", out |-> NoOut]

NoWaiter ==
  [live |-> FALSE, threadId |-> 0, turnId |-> 0, latestAgentMessage |-> "",
   aggregatedAgentDeltas |-> "", usage |-> <<>>, settled |-> FALSE,
   timer |-> FALSE, listening |-> FALSE, out |-> NoOut,
   gotMessage |-> FALSE, gotUsage |-> FALSE, calls |-> 0]

NoHs == [initialize |-> 0, initialized |-> 0, threadStart |-> 0]

\* the program state as one record; exc is the exception in flight
St == [child |-> child, proc |-> proc, readline |-> readline, rlOpen |-> rlOpen,
       pendingRequests |-> pendingRequests, reqTimers |-> reqTimers,
       requestCounter |-> requestCounter, threadId |-> threadId,
       startPromise |-> startPromise, startReject |-> startReject,
       startWaiters |-> startWaiters, isStopping |-> isStopping,
       autoRestart |-> autoRestart, restartTimers |-> restartTimers,
       micro |-> micro, burst |-> burst, extCalls |-> extCalls,
       turns |-> turns, tw |-> tw, issued |-> issued, fired |-> fired, hs |-> hs, wire |-> wire,
       replies |-> replies, crashed |-> crashed, unhandled |-> unhandled,
       exc |-> "", over |-> FALSE]

\* When the promise-job queue has drained, the runtime looks at the promises
\* rejected in this turn of the event loop that still have no handler: it
\* raises the rejection as an uncaught exception (the default of Node 15 and
\* later) or only warns (Node 14, --unhandled-rejections=warn).
endOfTick(r) ==
  IF r.micro = <<>> /\ r.unhandled # {}
    THEN {[r EXCEPT !.unhandled = {}], [r EXCEPT !.unhandled = {}, !.crashed = TRUE]}
    ELSE {r}

Assign(r) ==
  /\ ~crashed
  /\ child' = r.child
  /\ proc' = r.proc
  /\ readline' = r.readline
  /\ rlOpen' = r.rlOpen
  /\ pendingRequests' = r.pendingRequests
  /\ reqTimers' = r.reqTimers
  /\ requestCounter' = r.requestCounter
  /\ threadId' = r.threadId
  /\ startPromise' = r.startPromise
  /\ startReject' = r.startReject
  /\ startWaiters' = r.startWaiters
  /\ isStopping' = r.isStopping
  /\ autoRestart' = r.autoRestart
  /\ restartTimers' = r.restartTimers
  /\ micro' = r.micro
  /\ burst' = r.burst
  /\ extCalls' = r.extCalls
  /\ turns' = r.turns
  /\ tw' = r.tw
  /\ issued' = r.issued
  /\ fired' = r.fired
  /\ hs' = r.hs
  /\ wire' = r.wire
  /\ replies' = r.replies
  /\ crashed' = r.crashed
  /\ unhandled' = r.unhandled

Commit(r) ==
  /\ r.requestCounter <= MaxReq + 1
  /\ ~r.over
  /\ \E e \in endOfTick(r) : Assign(e)

Enq(s, j) == [s EXCEPT !.micro = Append(@, j)]

Without(f, x) == [y \in (DOMAIN f) \ {x} |-> f[y]]

Empty == [y \in {} |-> 0]

MinOf(S) == CHOOSE x \in S : \A y \in S : x <= y

Bump(n) == IF n < 2 THEN n + 1 ELSE n

\* ------------------------------------------------ request correlation
\* pending.resolve / pending.reject (and the timer's reject): a promise takes
\* the first call only, and then queues the continuation of its awaiter
settleRequest(s, id, info, out) ==
  LET s1 == [s EXCEPT !.fired[id] = Bump(@)] IN
  IF s.fired[id] = 0
    THEN Enq(s1, Job("req", info.own, id, info.method, info.stale, out))
    ELSE s1

\* #writeMessage's guard: the child is held, not killed, and its stdin writable
canWrite(s) == s.child # 0 /\ s.proc[s.child] \in {"run", "failing"}

countFrame(s, method) ==
  CASE method = "initialize"   -> [s EXCEPT !.hs.initialize = Bump(@)]
    [] method = "initialized"  -> [s EXCEPT !.hs.initialized = Bump(@)]
    [] method = "thread/start" -> [s EXCEPT !.hs.threadStart = Bump(@)]
    [] OTHER -> s

NotWritableMsg == "Codex app-server stdin is not writable."

NotRunningMsg == "Codex process is not running."

writeMessage(s, method, id) ==
  IF canWrite(s) THEN [countFrame(s, method) EXCEPT !.wire = Append(@, id)]
  ELSE [s EXCEPT !.exc = NotWritableMsg]

sendNotification(s, method) == writeMessage(s, method, 0)

\* faulty variant: a request whose write failed stays in the table with its timer
sendRequestLeavesEntry(s, method, own, stale) ==
  IF s.child = 0 \/ s.proc[s.child] = "killed"
    THEN [s EXCEPT !.exc = NotRunningMsg]
    ELSE
      LET id   == s.requestCounter
          info == [method |-> method, own |-> own, stale |-> stale]
          s1   == [s EXCEPT !.requestCounter = id + 1]
          s2   == writeMessage(s1, method, id)
          s3   == [s2 EXCEPT !.pendingRequests = @ @@ (id :> info),
                             !.reqTimers = @ @@ (id :> info)]
      IN  IF id > MaxReq THEN s1
          ELSE IF s2.exc = "" THEN s3
          ELSE settleRequest([s3 EXCEPT !.exc = ""], id, info, Err(s2.exc))

\* faulty variant: an id whose write failed is handed out again
sendRequestReuseId(s, method, own, stale) ==
  IF s.child = 0 \/ s.proc[s.child] = "killed"
    THEN [s EXCEPT !.exc = NotRunningMsg]
    ELSE
      LET id   == s.requestCounter
          info == [method |-> method, own |-> own, stale |-> stale]
          s1   == [s EXCEPT !.requestCounter = id + 1]
          s2   == writeMessage(s, method, id)
      IN  IF id > MaxReq THEN s1
          ELSE IF s2.exc = ""
            THEN [s2 EXCEPT !.requestCounter = id + 1,
                            !.pendingRequests = @ @@ (id :> info),
                            !.reqTimers = @ @@ (id :> info)]
            ELSE settleRequest([s2 EXCEPT !.exc = ""], id, info, Err(s2.exc))

sendRequest(s, method, own, stale) ==
  IF s.child = 0 \/ s.proc[s.child] = "killed"
    THEN [s EXCEPT !.exc = NotRunningMsg]
    ELSE
      LET id   == s.requestCounter
          info == [method |-> method, own |-> own, stale |-> stale]
          s1   == [s EXCEPT !.requestCounter = id + 1]
          s2   == writeMessage(s1, method, id)
      IN  IF id > MaxReq THEN s1
          ELSE IF s2.exc = ""
            THEN [s2 EXCEPT !.pendingRequests = @ @@ (id :> info),
                            !.reqTimers = @ @@ (id :> info)]
            ELSE settleRequest([s2 EXCEPT !.exc = ""], id, info, Err(s2.exc))

\* faulty variant: the response leaves the request's timer running
handleResponseKeepTimer(s, id, out) ==
  IF id \notin DOMAIN s.pendingRequests THEN s
  ELSE settleRequest([s EXCEPT !.pendingRequests = Without(@, id)],
                     id, s.pendingRequests[id], out)

handleResponse(s, id, out) ==
  IF id \notin DOMAIN s.pendingRequests THEN s
  ELSE LET info == s.pendingRequests[id]
           s1 == [s EXCEPT !.reqTimers = Without(@, id),
                           !.pendingRequests = Without(@, id)]
       IN  settleRequest(s1, id, info, out)

TimedOutMethodMsg(method) == "Codex request timed out for method " \o method \o "."

\* faulty variant: the timeout also resets the session
requestTimeoutResets(s, id) ==
  LET info == s.reqTimers[id]
      s1 == [s EXCEPT !.reqTimers = Without(@, id),
                      !.pendingRequests = Without(@, id),
                      !.threadId = 0]
      s2 == IF s1.child # 0 /\ s1.proc[s1.child] = "run"
              THEN [s1 EXCEPT !.proc[s1.child] = "killed"] ELSE s1
  IN  settleRequest(s2, id, info, Err(TimedOutMethodMsg(info.method)))

requestTimeout(s, id) ==
  LET info == s.reqTimers[id]
      s1 == [s EXCEPT !.reqTimers = Without(@, id),
                      !.pendingRequests = Without(@, id)]
  IN  settleRequest(s1, id, info, Err(TimedOutMethodMsg(info.method)))

RECURSIVE rejectEach(_, _, _)
rejectEach(s, ids, msg) ==
  IF ids = {} THEN s
  ELSE LET id == MinOf(ids)
           s1 == [s EXCEPT !.reqTimers = Without(@, id)]
       IN  rejectEach(settleRequest(s1, id, s.pendingRequests[id], Err(msg)),
                      ids \ {id}, msg)

\* the loop over this.pendingRequests.values() followed by clear()
rejectAllPending(s, msg) ==
  [rejectEach(s, DOMAIN s.pendingRequests, msg) EXCEPT !.pendingRequests = Empty]

\* ------------------------------------------------------ process lifecycle
ExitedMsg == "Codex app-server exited."

\* child.kill("SIGTERM"): sets child.killed when the signal could be sent
kill(s, c) == IF s.proc[c] = "run" THEN [s EXCEPT !.proc[c] = "killed"] ELSE s

isReady(s) == s.threadId # 0 /\ s.child # 0 /\ s.proc[s.child] # "killed"

\* resolve / reject of this.startPromise: the creator's await resumes first,
\* then the callers that were handed the same promise
RECURSIVE wake(_, _, _, _)
wake(s, ws, i, out) ==
  IF i > Len(ws) THEN s
  ELSE wake(Enq(s, Job("er", ws[i], IF i = 1 THEN 1 ELSE 0, "", FALSE, out)),
            ws, i + 1, out)

settleStart(s, out) ==
  IF s.startPromise.st # "pending" THEN s
  ELSE wake([s EXCEPT !.startPromise = [st |-> out.st, msg |-> out.msg],
                      !.startWaiters = <<>>],
            s.startWaiters, 1, out)

spawnProcess(s, spawnOk) ==
  IF s.child # 0 /\ s.proc[s.child] # "killed" THEN s
  ELSE IF \A c \in Children : s.proc[c] # "none" THEN [s EXCEPT !.over = TRUE]
  ELSE LET c == MinOf({x \in Children : s.proc[x] = "none"}) IN
       [s EXCEPT !.child = c,
                 !.proc[c] = IF spawnOk THEN "run" ELSE "failing",
                 !.readline = c,
                 !.rlOpen = @ \cup {c}]

\* child.on("error"): the spawn failed; node has destroyed the child's stdin
onError(s, c) ==
  LET s1 == [s EXCEPT !.proc[c] = "failed"] IN
  IF s1.startReject
    THEN [settleStart(s1, Err("spawn ENOENT")) EXCEPT !.startReject = FALSE]
    ELSE s1

\* #startInternal up to its first await
StoppingMsg == "Codex client is stopping."

\* faulty variant: the attempt does not look at isStopping
startInternalUnchecked(s, spawnOk) ==
  LET s1 == spawnProcess(s, spawnOk)
      s2 == sendRequest(s1, "initialize", 0, FALSE)
  IN  IF s2.exc # ""
        THEN Enq([s2 EXCEPT !.exc = ""], Job("start", 0, 0, "", FALSE, Err(s2.exc)))
        ELSE s2

startInternal(s, spawnOk) ==
  IF s.isStopping
    THEN Enq(s, Job("start", 0, 0, "", FALSE, Err(StoppingMsg)))
    ELSE
      LET s1 == spawnProcess(s, spawnOk)
          s2 == sendRequest(s1, "initialize", 0, FALSE)
      IN  IF s2.exc # ""
            THEN Enq([s2 EXCEPT !.exc = ""], Job("start", 0, 0, "", FALSE, Err(s2.exc)))
            ELSE s2

\* faulty variant: thread/start is sent without the "initialized" notification
afterInitializeNoNotification(s, j) ==
  IF j.out.st = "err" THEN Enq(s, Job("start", 0, 0, "", j.stale, j.out))
  ELSE
    LET s2 == sendRequest(s, "thread/start", 0, j.stale) IN
    IF s2.exc # ""
      THEN Enq([s2 EXCEPT !.exc = ""], Job("start", 0, 0, "", j.stale, Err(s2.exc)))
      ELSE s2

\* #startInternal resumed by the response to "initialize"
afterInitialize(s, j) ==
  IF j.out.st = "err" THEN Enq(s, Job("start", 0, 0, "", j.stale, j.out))
  ELSE
    LET s1 == sendNotification(s, "initialized") IN
    IF s1.exc # ""
      THEN Enq([s1 EXCEPT !.exc = ""], Job("start", 0, 0, "", j.stale, Err(s1.exc)))
      ELSE
        LET s2 == sendRequest(s1, "thread/start", 0, j.stale) IN
        IF s2.exc # ""
          THEN Enq([s2 EXCEPT !.exc = ""], Job("start", 0, 0, "", j.stale, Err(s2.exc)))
          ELSE s2

\* #startInternal resumed by the response to "thread/start"
afterThreadStart(s, j) ==
  IF j.out.st = "err" THEN Enq(s, Job("start", 0, 0, "", j.stale, j.out))
  ELSE
    LET s1 == [s EXCEPT !.threadId = j.out.val] IN
    IF s1.threadId = 0
      THEN Enq(s1, Job("start", 0, 0, "", j.stale,
                       Err("thread/start did not return a thread id.")))
      ELSE Enq(s1, Job("start", 0, 0, "", j.stale, Ok(0)))

\* the handshake coroutines of an attempt whose promise has been dropped
markStale(s) ==
  LET hsReq(m) == m \in {"initialize", "thread/start"}
      old(f) == [i \in DOMAIN f |->
                   IF hsReq(f[i].method) THEN [f[i] EXCEPT !.stale = TRUE] ELSE f[i]]
  IN  [s EXCEPT !.pendingRequests = old(@),
                !.reqTimers = old(@),
                !.micro = [i \in DOMAIN @ |->
                             IF @[i].k = "start" \/ (@[i].k = "req" /\ hsReq(@[i].m))
                               THEN [@[i] EXCEPT !.stale = TRUE] ELSE @[i]]]

\* faulty variant: a call made while an attempt is outstanding starts another one
ensureReadyUncoalesced(s, who, spawnOk) ==
  IF isReady(s) THEN Enq(s, Job("ret", who, 0, "", FALSE, Ok(0)))
  ELSE LET s1 == [s EXCEPT !.startPromise = [st |-> "pending", msg |-> ""],
                           !.startReject = TRUE,
                           !.startWaiters = <<who>>]
           s2 == startInternal(s1, spawnOk)
       IN  IF s2.child # 0 /\ s2.proc[s2.child] = "failing"
             THEN onError(s2, s2.child)
             ELSE s2

ensureReady(s, who, spawnOk) ==
  IF isReady(s) THEN Enq(s, Job("ret", who, 0, "", FALSE, Ok(0)))
  ELSE IF s.startPromise.st = "pending"
    THEN [s EXCEPT !.startWaiters = Append(@, who)]
  ELSE IF s.startPromise.st # "none"
    THEN Enq(s, Job("er", who, 0, "", FALSE,
                    [st |-> s.startPromise.st, val |-> 0, msg |-> s.startPromise.msg]))
  ELSE
    LET s1 == [s EXCEPT !.startPromise = [st |-> "pending", msg |-> ""],
                        !.startReject = TRUE,
                        !.startWaiters = <<who>>]
        s2 == startInternal(s1, spawnOk)
    IN  IF s2.child # 0 /\ s2.proc[s2.child] = "failing"
          THEN onError(s2, s2.child)
          ELSE s2

\* ensureReady resumed after `await this.startPromise`: the finally block of
\* the creator (j.id = 1), then the return to the caller
afterStartPromise(s, j) ==
  LET s1 == IF j.id = 1
              THEN markStale([s EXCEPT !.startReject = FALSE,
                                       !.startPromise = NoPromise,
                                       !.hs = NoHs])
              ELSE s
  IN  Enq(s1, Job("ret", j.who, 0, "", FALSE, j.out))

\* faulty variant: the exit handler sets no restart timer
onExitNoRestart(s, c) ==
  [rejectAllPending([s EXCEPT !.threadId = 0], ExitedMsg)
     EXCEPT !.child = 0, !.proc[c] = "exited", !.rlOpen = @ \ {c}]

\* faulty variant: the restart is scheduled whatever isStopping and autoRestart say
onExitAlwaysRestart(s, c) ==
  LET s1 == rejectAllPending([s EXCEPT !.threadId = 0], ExitedMsg)
      s2 == [s1 EXCEPT !.child = 0, !.proc[c] = "exited", !.rlOpen = @ \ {c}]
  IN  IF s2.restartTimers >= MaxTimers THEN [s2 EXCEPT !.over = TRUE]
      ELSE [s2 EXCEPT !.restartTimers = @ + 1]

\* child.on("exit")
onExit(s, c) ==
  LET s1 == rejectAllPending([s EXCEPT !.threadId = 0], ExitedMsg)
      s2 == [s1 EXCEPT !.child = 0, !.proc[c] = "exited", !.rlOpen = @ \ {c}]
  IN  IF s2.isStopping \/ ~s2.autoRestart THEN s2
      ELSE IF s2.restartTimers >= MaxTimers THEN [s2 EXCEPT !.over = TRUE]
      ELSE [s2 EXCEPT !.restartTimers = @ + 1]

ShutdownMsg == "Codex client is shutting down."

\* faulty variant: the rejected requests stay in the table
stopNoClear(s) ==
  LET s1 == [rejectEach([s EXCEPT !.isStopping = TRUE],
                        DOMAIN s.pendingRequests, ShutdownMsg)
               EXCEPT !.reqTimers = s.reqTimers]
      s2 == IF s1.readline # 0
              THEN [s1 EXCEPT !.rlOpen = @ \ {s1.readline}, !.readline = 0]
              ELSE s1
      s3 == IF s2.child # 0 /\ s2.proc[s2.child] # "killed"
              THEN kill(s2, s2.child) ELSE s2
  IN  [s3 EXCEPT !.child = 0, !.threadId = 0]

stop(s) ==
  LET s1 == rejectAllPending([s EXCEPT !.isStopping = TRUE],
                             ShutdownMsg)
      s2 == IF s1.readline # 0
              THEN [s1 EXCEPT !.rlOpen = @ \ {s1.readline}, !.readline = 0]
              ELSE s1
      s3 == IF s2.child # 0 /\ s2.proc[s2.child] # "killed"
              THEN kill(s2, s2.child) ELSE s2
  IN  [s3 EXCEPT !.child = 0, !.threadId = 0]

\* faulty variant: the thread id survives the reset
resetSessionKeepThread(s) ==
  IF s.child # 0 /\ s.proc[s.child] # "killed" THEN kill(s, s.child) ELSE s

resetSession(s) ==
  LET s1 == [s EXCEPT !.threadId = 0] IN
  IF s1.child # 0 /\ s1.proc[s1.child] # "killed" THEN kill(s1, s1.child) ELSE s1

\* ------------------------------------------------------------ turn waiter
\* the promise of the waiter takes the first resolve / reject; runTurn is
\* resumed when it is already awaiting the promise
settleWaiter(s, k, out) ==
  LET s1 == [s EXCEPT !.tw[k].calls = Bump(@)] IN
  IF s.tw[k].out.st # "none" THEN s1
  ELSE LET s2 == [s1 EXCEPT !.tw[k].out = out] IN
       IF s.turns[k].phase = "wait"
         THEN Enq(s2, Job("tdone", k, 0, "", FALSE, Ok(0)))
         ELSE IF out.st = "err" THEN [s2 EXCEPT !.unhandled = @ \cup {k}]
         ELSE s2

\* faulty variant: no `settled` guard, and the timer and the listener stay
finishUnguarded(s, k, out) ==
  settleWaiter([s EXCEPT !.tw[k].settled = TRUE], k, out)

finish(s, k, out) ==
  IF s.tw[k].settled THEN s
  ELSE settleWaiter([s EXCEPT !.tw[k].settled = TRUE,
                              !.tw[k].timer = FALSE,
                              !.tw[k].listening = FALSE], k, out)

dispose(s, k) ==
  IF s.tw[k].settled THEN s
  ELSE [s EXCEPT !.tw[k].timer = FALSE,
                 !.tw[k].listening = FALSE,
                 !.tw[k].settled = TRUE]

setTurnId(s, k, value) == [s EXCEPT !.tw[k].turnId = value]

createTurnWaiter(s, k) ==
  [s EXCEPT !.tw[k] = [NoWaiter EXCEPT !.live = TRUE,
                                       !.threadId = s.threadId,
                                       !.timer = TRUE,
                                       !.listening = TRUE]]

\* faulty variant: the turn id of the notification is not looked at
acceptsAnyTurn(w, n) == TRUE

\* the turn-id filter shared by the five branches of notificationHandler,
\* followed by the binding of a turn id not known yet
accepts(w, n) == w.turnId = 0 \/ n.turnId = w.turnId
bound(w, n) == IF w.turnId = 0 /\ n.turnId # 0 THEN n.turnId ELSE w.turnId

\* faulty variant: the incremental text is preferred to the complete message
resultTextDeltasFirst(w) ==
  IF w.aggregatedAgentDeltas # "" THEN w.aggregatedAgentDeltas ELSE w.latestAgentMessage

resultText(w) ==
  IF w.latestAgentMessage # "" THEN w.latestAgentMessage ELSE w.aggregatedAgentDeltas

\* faulty variant: the message of the event is dropped
errorTextDefault(n) == "Turn failed."

errorText(n) == IF n.hasText THEN n.text ELSE "Turn failed."

\* faulty variant: the counts are taken as they come, without the `?? 0`
usageOfRaw(n) == <<n.inputTokens, n.outputTokens>>

\* tokenUsage.last.inputTokens ?? 0 and outputTokens ?? 0; a count that the
\* event does not carry is written -1
usageOf(n) == <<IF n.inputTokens < 0 THEN 0 ELSE n.inputTokens,
                IF n.outputTokens < 0 THEN 0 ELSE n.outputTokens>>

\* faulty variant: status and detail of the event are dropped
turnFailureGeneric(n) == "Turn failed."

turnFailure(n) ==
  "Turn " \o (IF n.status = "" THEN "unknown" ELSE n.status) \o ": "
          \o (IF n.hasText /\ n.text # "" THEN n.text ELSE "turn did not complete")

\* faulty variant: the counts of a usage event are added to the snapshot
notificationHandlerSumsUsage(s, k, n) ==
  LET w == s.tw[k] IN
  IF n.threadId # w.threadId \/ ~accepts(w, n) THEN s
  ELSE
    LET s1 == [s EXCEPT !.tw[k].turnId = bound(w, n)] IN
    CASE n.method = "item/agentMessage/delta" ->
           LET text == w.aggregatedAgentDeltas \o (IF n.hasText THEN n.text ELSE "") IN
           [s1 EXCEPT !.tw[k].aggregatedAgentDeltas = text,
                      !.over = @ \/ Len(text) > MaxText]
      [] n.method = "item/completed" ->
           IF n.item = "agentMessage" /\ n.hasText
             THEN [s1 EXCEPT !.tw[k].latestAgentMessage = n.text,
                             !.tw[k].gotMessage = TRUE]
             ELSE s1
      [] n.method = "thread/tokenUsage/updated" ->
           [s1 EXCEPT !.tw[k].usage =
                        IF w.usage = <<>> THEN usageOf(n)
                        ELSE <<w.usage[1] + usageOf(n)[1], w.usage[2] + usageOf(n)[2]>>,
                      !.tw[k].gotUsage = TRUE]
      [] n.method = "error" ->
           IF ~n.willRetry THEN finish(s1, k, Rejected(errorText(n))) ELSE s1
      [] n.method = "turn/completed" ->
           IF n.status = "completed"
             THEN finish(s1, k, Resolved(resultText(s1.tw[k]), s1.tw[k].usage))
             ELSE finish(s1, k, Rejected(turnFailure(n)))
      [] OTHER -> s

notificationHandler(s, k, n) ==
  LET w == s.tw[k] IN
  IF n.threadId # w.threadId \/ ~accepts(w, n) THEN s
  ELSE
    LET s1 == [s EXCEPT !.tw[k].turnId = bound(w, n)] IN
    CASE n.method = "item/agentMessage/delta" ->
           LET text == w.aggregatedAgentDeltas \o (IF n.hasText THEN n.text ELSE "") IN
           [s1 EXCEPT !.tw[k].aggregatedAgentDeltas = text,
                      !.over = @ \/ Len(text) > MaxText]
      [] n.method = "item/completed" ->
           IF n.item = "agentMessage" /\ n.hasText
             THEN [s1 EXCEPT !.tw[k].latestAgentMessage = n.text,
                             !.tw[k].gotMessage = TRUE]
             ELSE s1
      [] n.method = "thread/tokenUsage/updated" ->
           [s1 EXCEPT !.tw[k].usage = usageOf(n), !.tw[k].gotUsage = TRUE]
      [] n.method = "error" ->
           IF ~n.willRetry THEN finish(s1, k, Rejected(errorText(n))) ELSE s1
      [] n.method = "turn/completed" ->
           IF n.status = "completed"
             THEN finish(s1, k, Resolved(resultText(s1.tw[k]), s1.tw[k].usage))
             ELSE finish(s1, k, Rejected(turnFailure(n)))
      [] OTHER -> s

\* #emitNotification: every registered listener, in registration order
RECURSIVE emitFrom(_, _, _)
emitFrom(s, k, n) ==
  IF k > MaxTurns THEN s
  ELSE emitFrom(IF s.tw[k].listening THEN notificationHandler(s, k, n) ELSE s,
                k + 1, n)

emitNotification(s, n) == emitFrom(s, 1, n)

TimedOutMsg == "Turn timed out after Nms."

\* faulty variant: the timer rejects the promise and leaves the listener registered
turnTimeoutKeepListener(s, k) ==
  settleWaiter([s EXCEPT !.tw[k].timer = FALSE, !.tw[k].settled = TRUE],
               k, Rejected(TimedOutMsg))

\* the deadline timer of the waiter
turnTimeout(s, k) ==
  finish([s EXCEPT !.tw[k].timer = FALSE], k, Rejected(TimedOutMsg))

\* ----------------------------------------------------------- turn queue
\* the waiter's closure is unreachable once its timer and listener are gone
collect(s, k) ==
  IF s.tw[k].timer \/ s.tw[k].listening THEN s ELSE [s EXCEPT !.tw[k] = NoWaiter]

\* #runTurn's promise settles: the outcome reaches the caller of queueTurn
\* and the next task chained on this.turnQueue starts
settleTurn(s, k, out) ==
  LET s1 == collect([s EXCEPT !.turns[k] = [phase |-> "done", out |-> out]], k) IN
  IF k < Len(s.turns)
    THEN Enq(s1, Job("task", k + 1, 0, "", FALSE, Ok(0)))
    ELSE s1

\* faulty variant: the task is started at once instead of being chained on turnQueue
queueTurnUnchained(s) ==
  Enq([s EXCEPT !.turns = Append(@, [phase |-> "queued", out |-> NoOut])],
      Job("task", Len(s.turns) + 1, 0, "", FALSE, Ok(0)))

queueTurn(s) ==
  LET k == Len(s.turns) + 1
      s1 == [s EXCEPT !.turns = Append(@, [phase |-> "queued", out |-> NoOut])]
  IN  IF \A i \in 1..Len(s.turns) : s.turns[i].phase = "done"
        THEN Enq(s1, Job("task", k, 0, "", FALSE, Ok(0)))
        ELSE s1

\* #runTurn up to `await this.ensureReady()`
runTurn(s, k, spawnOk) ==
  ensureReady([s EXCEPT !.turns = [i \in DOMAIN @ |->
                                     IF i = k THEN [@[i] EXCEPT !.phase = "ready"]
                                     ELSE IF @[i].phase = "done" THEN Delivered
                                     ELSE @[i]]],
              k, spawnOk)

\* #runTurn resumed by ensureReady
afterEnsureReady(s, k, out) ==
  IF out.st = "err" THEN settleTurn(s, k, Rejected(out.msg))
  ELSE IF s.threadId = 0 THEN settleTurn(s, k, Rejected("No active thread id."))
  ELSE
    LET s1 == createTurnWaiter(s, k)
        s2 == sendRequest(s1, "turn/start", k, FALSE)
    IN  IF s2.exc # ""
          THEN settleTurn(dispose([s2 EXCEPT !.exc = ""], k), k, Rejected(s2.exc))
          ELSE [s2 EXCEPT !.turns[k].phase = "start"]

\* #runTurn resumed by the response to "turn/start"
afterTurnStart(s, j) ==
  LET k == j.who IN
  IF j.out.st = "err" THEN settleTurn(dispose(s, k), k, Rejected(j.out.msg))
  ELSE
    LET s1 == IF j.out.val # 0 THEN setTurnId(s, k, j.out.val) ELSE s
        s2 == [s1 EXCEPT !.turns[k].phase = "wait", !.unhandled = @ \ {k}]
    IN  IF s2.tw[k].out.st # "none"
          THEN Enq(s2, Job("tdone", k, 0, "", FALSE, Ok(0)))
          ELSE s2

\* #runTurn resumed by the waiter's promise: the finally block, then the result
afterTurnWaiter(s, k) == settleTurn(dispose(s, k), k, s.tw[k].out)

\* ---------------------------------------------------------- stdout lines
Notif(method, th, tu, hasText, text) ==
  [method |-> method, threadId |-> th, turnId |-> tu, hasText |-> hasText,
   text |-> text, item |-> "", inputTokens |-> -1, outputTokens |-> -1,
   willRetry |-> FALSE, status |-> ""]

TurnIds == {0, 1, 2}   \* turn ids a message may carry (0: none)

NotifsCore ==
  UNION {{Notif("item/agentMessage/delta", th, tu, TRUE, "ab"),
          [Notif("error", th, tu, TRUE, "boom") EXCEPT !.willRetry = FALSE],
          [Notif("error", th, tu, TRUE, "boom") EXCEPT !.willRetry = TRUE],
          [Notif("turn/completed", th, tu, FALSE, "") EXCEPT !.status = "completed"],
          [Notif("turn/completed", th, tu, TRUE, "why") EXCEPT !.status = "failed"]}
         : th \in Threads, tu \in TurnIds}

Responses ==
  {[kind |-> "response", id |-> id, out |-> out] :
     id \in ReqIds, out \in {Ok(0), Ok(1), Ok(2), Err("rpc error")}}

\* ------------------------------------------- server-initiated requests
NoAnswers == [q \in {} |-> <<>>]

Result(decision, answers, text) ==
  [kind |-> "result", decision |-> decision, answers |-> answers, text |-> text,
   code |-> 0, message |-> ""]

UnsupportedCode == -32000

makeServerRequestUnsupportedError(method) ==
  [kind |-> "error", decision |-> "", answers |-> NoAnswers, text |-> "",
   code |-> UnsupportedCode,
   message |-> "Unsupported server request method: " \o method]

\* a question is [id, options (labels), isOther]
defaultToolAnswer(question) ==
  IF Len(question.options) > 0 THEN <<question.options[1]>>
  ELSE <<IF question.isOther THEN "other" ELSE "yes">>

\* answers[question.id] = ... in the order of the questions: the last one wins
answersOf(questions) ==
  [qid \in {questions[i].id : i \in DOMAIN questions} |->
     LET last == CHOOSE i \in DOMAIN questions :
                   /\ questions[i].id = qid
                   /\ \A j \in DOMAIN questions : questions[j].id = qid => j <= i
     IN  defaultToolAnswer(questions[last])]

Supported ==
  {"item/commandExecution/requestApproval", "item/fileChange/requestApproval",
   "execCommandApproval", "applyPatchApproval", "item/tool/requestUserInput",
   "item/tool/call"}

\* defined for the methods of Supported; any other method throws
buildServerRequestResult(method, params) ==
  CASE method = "item/commandExecution/requestApproval" -> Result("accept", NoAnswers, "")
    [] method = "item/fileChange/requestApproval" -> Result("accept", NoAnswers, "")
    [] method = "execCommandApproval" -> Result("approved", NoAnswers, "")
    [] method = "applyPatchApproval" -> Result("approved", NoAnswers, "")
    [] method = "item/tool/requestUserInput" -> Result("", answersOf(params), "")
    [] OTHER -> Result("", NoAnswers,
                       "Dynamic tool calls are not supported by this gateway.")

\* #writeMessage of a reply frame
writeReply(s, id, body) ==
  IF canWrite(s) THEN [s EXCEPT !.replies = Append(@, [id |-> id, body |-> body])]
  ELSE [s EXCEPT !.exc = NotWritableMsg]

\* the try block, and the catch block when it threw; an exception thrown by
\* the catch block is left in exc
handleServerRequest(s, id, method, params) ==
  LET s1 == IF method \in Supported
              THEN writeReply(s, id, buildServerRequestResult(method, params))
              ELSE [s EXCEPT !.exc = "Unsupported server request: " \o method]
  IN  IF s1.exc = "" THEN s1
      ELSE writeReply([s1 EXCEPT !.exc = ""], id,
                      makeServerRequestUnsupportedError(method))

\* an exception that leaves the "line" listener is caught by nobody
uncaught(s) == IF s.exc = "" THEN s ELSE [s EXCEPT !.exc = "", !.crashed = TRUE]

Malformed == [kind |-> "malformed"]

\* #handleLine: a line that is not JSON, a server request, a response, or a
\* notification
handleLine(s, line) ==
  CASE line.kind = "malformed" -> resetSession(s)
    [] line.kind = "serverRequest" ->
         uncaught(handleServerRequest(s, line.id, line.method, line.params))
    [] line.kind = "response" -> handleResponse(s, line.id, line.out)
    [] line.kind = "notification" -> emitNotification(s, line.n)
    [] OTHER -> s

\* ---------------------------------------------------------------- jobs
runJob(s, j, spawnOk) ==
  CASE j.k = "req" /\ j.m = "initialize" -> afterInitialize(s, j)
    [] j.k = "req" /\ j.m = "thread/start" -> afterThreadStart(s, j)
    [] j.k = "req" /\ j.m = "turn/start" -> afterTurnStart(s, j)
    [] j.k = "start" -> IF j.stale THEN s ELSE settleStart(s, j.out)
    [] j.k = "er" -> afterStartPromise(s, j)
    [] j.k = "ret" -> IF j.who >= 1 THEN afterEnsureReady(s, j.who, j.out) ELSE s
    [] j.k = "task" -> runTurn(s, j.who, spawnOk)
    [] j.k = "tdone" -> afterTurnWaiter(s, j.who)
    [] OTHER -> s

\* -------------------------------------------------------------- actions
Idle == micro = <<>>

Macro(r) == Commit([r EXCEPT !.burst = 0])

\* one promise job; spawnOk is the result of a spawn, should the job spawn
RunJob(spawnOk) ==
  /\ micro # <<>>
  /\ Commit([runJob([St EXCEPT !.micro = Tail(@)], Head(micro), spawnOk)
               EXCEPT !.burst = 0])

\* the embedding program awaits ensureReady(): runCli does, at startup, before
\* it hands the client to the HTTP server
ExtEnsureReady(spawnOk) ==
  /\ Idle
  /\ extCalls < MaxExt
  /\ requestCounter = 1 /\ turns = <<>> /\ ~isStopping
  /\ Macro(ensureReady([St EXCEPT !.extCalls = @ + 1], ExtCaller, spawnOk))

\* the restart timer set by child.on("exit") fires
RestartTimer(spawnOk) ==
  /\ Idle
  /\ restartTimers > 0
  /\ Macro(ensureReady([St EXCEPT !.restartTimers = @ - 1], TimerCaller, spawnOk))

QueueTurn ==
  /\ Idle
  /\ Len(turns) < MaxTurns
  /\ Macro(queueTurn(St))

Stop ==
  /\ Idle
  /\ Macro(stop(St))

\* a child process ends: by itself, or after the signal sent by kill
Exit(c) ==
  /\ Idle
  /\ proc[c] \in {"run", "killed"}
  /\ Macro(onExit(St, c))

RequestTimeout(id) ==
  /\ Idle
  /\ id \in DOMAIN reqTimers
  /\ Macro(requestTimeout(St, id))

TurnTimeout(k) ==
  /\ Idle
  /\ tw[k].timer
  /\ Macro(turnTimeout(St, k))

\* the response answers a pending "thread/start" with thread id v
StartsThread(line, v) ==
  /\ line.kind = "response"
  /\ line.id \in DOMAIN pendingRequests
  /\ pendingRequests[line.id].method = "thread/start"
  /\ line.out = Ok(v)

\* a line read from the stdout of a child whose readline is open; the lines
\* of one chunk follow each other before any promise job runs.  Thread ids
\* are names: the first one the process reports is called 1.
Line(line) ==
  /\ \E c \in rlOpen : proc[c] \in {"run", "killed"}
  /\ Idle \/ (burst >= 1 /\ burst < MaxChunk)
  /\ StartsThread(line, 2) => issued
  /\ LET r == handleLine(St, line) IN
     /\ r # St     \* a line without effect is a stuttering step
     /\ Commit([r EXCEPT !.burst = IF r.micro = <<>> THEN 0 ELSE burst + 1,
                         !.issued = @ \/ StartsThread(line, 1)])

Init ==
  /\ child = 0
  /\ proc = [c \in Children |-> "none"]
  /\ readline = 0
  /\ rlOpen = {}
  /\ pendingRequests = Empty
  /\ reqTimers = Empty
  /\ requestCounter = 1
  /\ threadId = 0
  /\ startPromise = NoPromise
  /\ startReject = FALSE
  /\ startWaiters = <<>>
  /\ isStopping = FALSE
  /\ autoRestart \in BOOLEAN
  /\ restartTimers = 0
  /\ micro = <<>>
  /\ burst = 0
  /\ extCalls = 0
  /\ turns = <<>>
  /\ tw = [k \in 1..MaxTurns |-> NoWaiter]
  /\ issued = FALSE
  /\ fired = [id \in ReqIds |-> 0]
  /\ hs = NoHs
  /\ wire = <<>>
  /\ replies = <<>>
  /\ crashed = FALSE
  /\ unhandled = {}

Next ==
  \/ \E ok \in BOOLEAN : RunJob(ok)
  \/ \E ok \in BOOLEAN : ExtEnsureReady(ok)
  \/ \E ok \in BOOLEAN : RestartTimer(ok)
  \/ QueueTurn
  \/ Stop
  \/ \E c \in Children : Exit(c)
  \/ \E id \in ReqIds : RequestTimeout(id)
  \/ \E k \in 1..MaxTurns : TurnTimeout(k)
  \/ Line(Malformed)
  \/ \E l \in Responses : Line(l)
  \/ \E n \in NotifsCore : Line([kind |-> "notification", n |-> n])

Spec == Init /\ [][Next]_vars

\* ----------------------------------------------------------------------
\* The turn queue on a process that stays up and may fail to be spawned,
\* answer with errors or not at all.  Promise jobs run and every timer that
\* is set fires: setTimeout callbacks and the promise-job queue are not
\* starved.
\* ----------------------------------------------------------------------
Jobs == \E ok \in BOOLEAN : RunJob(ok)

NotifsQueue ==
  {n \in NotifsCore :
     n.threadId = 1 /\ n.turnId = 0 /\ n.method # "item/agentMessage/delta"}

NextQueue ==
  \/ Jobs
  \/ QueueTurn
  \/ \E l \in Responses : Line(l)
  \/ \E id \in ReqIds : RequestTimeout(id)
  \/ \E k \in 1..MaxTurns : TurnTimeout(k)
  \/ \E n \in NotifsQueue : Line([kind |-> "notification", n |-> n])

SpecQueue ==
  /\ Init
  /\ [][NextQueue]_vars
  /\ WF_vars(Jobs)
  /\ \A id \in ReqIds : WF_vars(RequestTimeout(id))
  /\ \A k \in 1..MaxTurns : WF_vars(TurnTimeout(k))

\* ----------------------------------------------------------------------
\* The process also sends requests of its own, with methods the client
\* answers and one it does not know; it may write a line that is not JSON
\* and exit.
\* ----------------------------------------------------------------------
MaxSrv == 1

SrvIds == {1, 2}

Questions ==
  {<<>>,
   <<[id |-> "q", options |-> <<"first", "second">>, isOther |-> FALSE]>>,
   <<[id |-> "q", options |-> <<>>, isOther |-> TRUE],
     [id |-> "q", options |-> <<>>, isOther |-> FALSE]>>}

ServerRequests ==
  {[kind |-> "serverRequest", id |-> id, method |-> "unknown/method",
    params |-> <<>>] : id \in SrvIds}
  \cup
  {[kind |-> "serverRequest", id |-> 2, method |-> m, params |-> <<>>] :
     m \in {"execCommandApproval", "item/tool/call"}}
  \cup
  {[kind |-> "serverRequest", id |-> 1, method |-> "item/tool/requestUserInput",
    params |-> q] : q \in Questions}

ServerRequest(l) == Len(replies) < MaxSrv /\ Line(l)

NextServer ==
  \/ Jobs
  \/ ExtEnsureReady(TRUE)
  \/ QueueTurn
  \/ \E c \in Children : Exit(c)
  \/ Line(Malformed)
  \/ \E l \in Responses : Line(l)
  \/ \E n \in NotifsQueue : Line([kind |-> "notification", n |-> n])
  \/ \E l \in ServerRequests : ServerRequest(l)

SpecServer == Init /\ [][NextServer]_vars

\* ----------------------------------------------------------------------
\* A process that can be spawned and answers: no spawn failure, no error
\* response, no request timeout, no line that is not JSON, no stop().
\* ----------------------------------------------------------------------
\* the process answers a pending request: a thread id, a turn id
Answer(v) ==
  \E id \in DOMAIN pendingRequests :
    Line([kind |-> "response", id |-> id, out |-> Ok(v)])

\* the process ends by itself; the run keeps a process and the request ids
\* of one handshake in reserve for the restart
Crash(c) ==
  /\ requestCounter + 2 <= MaxReq + 1
  /\ \E x \in Children : proc[x] = "none"
  /\ Exit(c)

NextRestart ==
  \/ RunJob(TRUE)
  \/ ExtEnsureReady(TRUE)
  \/ RestartTimer(TRUE)
  \/ QueueTurn
  \/ \E c \in Children : Crash(c)
  \/ Answer(1)
  \/ \E k \in 1..MaxTurns : TurnTimeout(k)
  \/ \E n \in NotifsCore : Line([kind |-> "notification", n |-> n])

\* promise jobs run, timers fire, and the process answers
SpecRestart ==
  /\ Init
  /\ [][NextRestart]_vars
  /\ WF_vars(RunJob(TRUE))
  /\ WF_vars(RestartTimer(TRUE))
  /\ WF_vars(Answer(1))

\* ----------------------------------------------------------------------
\* The notifications of a turn in detail, on a process that stays up.
\* ----------------------------------------------------------------------
Item(th, tu, type, hasText, text) ==
  [Notif("item/completed", th, tu, hasText, text) EXCEPT !.item = type]

Usage(th, tu, in, out) ==
  [Notif("thread/tokenUsage/updated", th, tu, FALSE, "")
     EXCEPT !.inputTokens = in, !.outputTokens = out]

NotifsData ==
  UNION {{Notif("item/agentMessage/delta", th, tu, TRUE, "a"),
          Notif("item/agentMessage/delta", th, tu, TRUE, "b"),
          Notif("item/agentMessage/delta", th, tu, FALSE, ""),
          Item(th, tu, "agentMessage", TRUE, ""),
          Item(th, tu, "agentMessage", TRUE, "m"),
          Item(th, tu, "agentMessage", TRUE, "n"),
          Item(th, tu, "agentMessage", FALSE, ""),
          Item(th, tu, "reasoning", TRUE, "r"),
          Usage(th, tu, -1, -1), Usage(th, tu, 1, -1),
          Usage(th, tu, -1, 2), Usage(th, tu, 1, 2),
          [Notif("error", th, tu, FALSE, "") EXCEPT !.willRetry = FALSE],
          [Notif("error", th, tu, TRUE, "boom") EXCEPT !.willRetry = TRUE],
          [Notif("turn/completed", th, tu, FALSE, "") EXCEPT !.status = "completed"],
          [Notif("turn/completed", th, tu, FALSE, "") EXCEPT !.status = "interrupted"]}
         : th \in Threads, tu \in TurnIds}

NextTurns ==
  \/ RunJob(TRUE)
  \/ QueueTurn
  \/ \E v \in TurnIds : Answer(v)
  \/ \E k \in 1..MaxTurns : TurnTimeout(k)
  \/ \E n \in NotifsData : Line([kind |-> "notification", n |-> n])

SpecTurns == Init /\ [][NextTurns]_vars

\* ======================================================================
\* Properties
\* ======================================================================
Turns == 1..MaxTurns
Submitted == 1..Len(turns)

TurnStartPending(k) ==
  \E id \in DOMAIN pendingRequests :
    pendingRequests[id].method = "turn/start" /\ pendingRequests[id].own = k

LiveWaiter(k) == tw[k].live /\ (tw[k].listening \/ tw[k].timer \/ ~tw[k].settled)

Active(k) == TurnStartPending(k) \/ LiveWaiter(k)

\* C1: whatever the calls of queueTurn, also while an earlier turn is running,
\* at most one turn is active (has a "turn/start" request pending or a live
\* waiter), a turn is not started before every earlier turn has delivered its
\* outcome, and so the outcomes are delivered in submission order.
C1_OneActiveTurnInOrder ==
  /\ Cardinality({k \in Turns : Active(k)}) <= 1
  /\ \A k \in Submitted : Active(k) => turns[k].phase \in {"start", "wait"}
  /\ \A i, j \in Submitted :
       i < j /\ turns[j].phase # "queued" => turns[i].phase = "done"

\* a second turn was submitted while the first is running
C1_Witness ==
  /\ Len(turns) = 2
  /\ turns[1].phase = "wait" /\ Active(1)
  /\ turns[2].phase = "queued"

\* ----------------------------------------------------------------------
Handshake(m) == m \in {"initialize", "thread/start"}

\* C2: every id put in pendingRequests is removed exactly once and its
\* continuation fires exactly once, whichever of response, request timeout,
\* exit or stop comes first; a removed id has no timer left and a late
\* response does nothing; an id in the table always has its timer running,
\* and the timer removes it, so no id stays forever.
C2_RemovedOnceFiredOnce ==
  \A id \in ReqIds :
    IF id \in DOMAIN pendingRequests
      THEN /\ id < requestCounter
           /\ fired[id] = 0
           /\ id \in DOMAIN reqTimers
           /\ id \notin DOMAIN requestTimeout(St, id).pendingRequests
           /\ requestTimeout(St, id).fired[id] = 1
      ELSE /\ id \notin DOMAIN reqTimers
           /\ fired[id] = IF id < requestCounter THEN 1 ELSE 0
           /\ \A r \in Responses : r.id = id => handleResponse(St, id, r.out) = St

\* two ids removed and fired once each, the second by the exit of the
\* process, whose rejection is about to resume the requester
C2_Witness ==
  /\ requestCounter >= 3
  /\ \A id \in 1..2 : id \notin DOMAIN pendingRequests /\ fired[id] = 1
  /\ \E i \in DOMAIN micro :
       micro[i].k = "req" /\ micro[i].out.st = "err" /\ micro[i].out.msg = ExitedMsg

\* the positions at which the handshake of the current attempt can be
HandshakeCoroutines ==
  Cardinality({id \in DOMAIN pendingRequests :
                 Handshake(pendingRequests[id].method) /\ ~pendingRequests[id].stale})
  + Cardinality({i \in DOMAIN micro :
                   /\ ~micro[i].stale
                   /\ \/ micro[i].k = "start"
                      \/ micro[i].k = "req" /\ Handshake(micro[i].m)})

Awaiting(who) ==
  \/ startPromise.st = "pending" /\ \E i \in DOMAIN startWaiters : startWaiters[i] = who
  \/ \E i \in DOMAIN micro : micro[i].k \in {"er", "ret"} /\ micro[i].who = who

\* C3: however many calls of ensureReady are made while an attempt is
\* outstanding, the callers all wait on that attempt, one handshake is under
\* way for it, and the frames written for it are one "initialize", then one
\* "initialized", then one "thread/start": never a second one of any of
\* them, and all three when the attempt succeeds.
C3_OneHandshakePerAttempt ==
  /\ hs.initialize <= 1 /\ hs.initialized <= 1 /\ hs.threadStart <= 1
  /\ hs.initialized <= hs.initialize /\ hs.threadStart <= hs.initialized
  /\ startPromise.st = "pending" =>
       /\ Len(startWaiters) >= 1
       /\ HandshakeCoroutines = 1
  /\ \A i \in DOMAIN micro :
       micro[i].k = "start" /\ ~micro[i].stale /\ micro[i].out.st = "ok" =>
         hs.initialize = 1 /\ hs.initialized = 1 /\ hs.threadStart = 1
  /\ \A k \in Submitted : turns[k].phase = "ready" => Awaiting(k)

\* two callers wait on one attempt whose handshake has reached thread/start
C3_Witness ==
  /\ startPromise.st = "pending"
  /\ Len(startWaiters) >= 2
  /\ hs.initialize = 1 /\ hs.initialized = 1 /\ hs.threadStart = 1

Frozen(w, v) ==
  \/ v = NoWaiter
  \/ /\ v.settled
     /\ v.out = w.out
     /\ v.latestAgentMessage = w.latestAgentMessage
     /\ v.aggregatedAgentDeltas = w.aggregatedAgentDeltas
     /\ v.usage = w.usage
     /\ v.calls = w.calls

C4_State ==
  \A k \in Turns :
    /\ tw[k].calls <= 1
    /\ tw[k].settled =>
         /\ ~tw[k].timer /\ ~tw[k].listening
         /\ \A n \in NotifsCore : emitNotification(St, n).tw[k] = tw[k]

C4_Step ==
  \A k \in Turns :
    /\ tw[k].settled => Frozen(tw[k], tw'[k])
    /\ k \in Submitted /\ turns[k].phase = "done" =>
         turns'[k] \in {turns[k], Delivered}

\* C4: a turn waiter settles at most once: its continuation is called at
\* most once, a settled waiter has neither timer nor listener, no
\* notification changes it, and no step changes its outcome, its texts or
\* its usage, nor the outcome that was delivered to the caller.
C4_SettlesAtMostOnce == [](C4_State) /\ [][C4_Step]_vars

\* a waiter settled by an event before the response to turn/start arrived:
\* notifications and responses still come in
C4_Witness ==
  \E k \in Submitted :
    /\ tw[k].settled /\ tw[k].out.st # "none" /\ tw[k].calls = 1
    /\ turns[k].phase = "start"

ExitRejection(k) ==
  \/ tw[k].out = Rejected(ExitedMsg)
  \/ \E i \in DOMAIN micro :
       /\ micro[i].k = "req" /\ micro[i].who = k /\ micro[i].m = "turn/start"
       /\ micro[i].out = Err(ExitedMsg)

\* C5: when the process held by the client exits while a turn is active and
\* not settled yet, before or after the response to turn/start, the exit
\* rejects the turn with the process-exit error.
C5_ExitRejectsActiveTurn ==
  [][\A c \in Children :
       child = c /\ proc[c] # "exited" /\ proc'[c] = "exited" =>
         \A k \in Submitted :
           turns[k].phase \in {"start", "wait"} /\ tw[k].out.st = "none" =>
             ExitRejection(k)']_vars

\* C6: with autoRestart set and no stop, once the process has exited the
\* client becomes ready again (a running process is held and the handshake
\* has set a thread id), also when no caller calls ensureReady or queueTurn,
\* on a process that can be spawned and answers the handshake.
Ready == isReady(St) /\ proc[child] = "run"

ProcessExited ==
  /\ autoRestart /\ ~isStopping
  /\ child = 0 /\ \E c \in Children : proc[c] = "exited"

C6_RestartsAfterExit == ProcessExited ~> Ready

\* ready again after an exit, with no turn submitted: the one call made by
\* the embedding program came before the process existed, and the restart
\* timer has fired
C6_Witness ==
  /\ Ready /\ autoRestart
  /\ \E c \in Children : proc[c] = "exited"
  /\ turns = <<>> /\ restartTimers = 0

\* ----------------------------------------------------------------------
\* waiter k's listener is registered and the event passes its filters
Hears(k, n) ==
  tw[k].listening /\ n.threadId = tw[k].threadId /\ accepts(tw[k], n)

After(n) == emitNotification(St, n)

Resumed(k, r) ==
  turns[k].phase = "wait" =>
    r.micro = Append(micro, Job("tdone", k, 0, "", FALSE, Ok(0)))

\* the outcome the caller of queueTurn gets is the outcome of the waiter
DeliversStep ==
  \A k \in Submitted :
    turns[k].phase = "wait" /\ turns'[k].phase = "done" =>
      tw[k].out.st # "none" /\ turns'[k].out = tw[k].out

\* C7 as stated: a turn that settles successfully carries the text of the
\* last accepted agent message if one was accepted, and the concatenated
\* deltas only if none was.
C7_LastMessageElseDeltas ==
  \A k \in Turns :
    tw[k].out.st = "ok" =>
      tw[k].out.text = IF tw[k].gotMessage THEN tw[k].latestAgentMessage
                       ELSE tw[k].aggregatedAgentDeltas

ExpectedText(w) ==
  IF w.gotMessage /\ w.latestAgentMessage # "" THEN w.latestAgentMessage
  ELSE w.aggregatedAgentDeltas

\* C7, amended: the text is that of the last accepted agent message when
\* that text is not empty, and else the accepted deltas concatenated in
\* arrival order; an accepted delta is appended, an accepted agent message
\* replaces the last one, and no other event touches either.
C7_NonEmptyMessageElseDeltas ==
  \A k \in Turns :
    /\ tw[k].out.st = "ok" => tw[k].out.text = ExpectedText(tw[k])
    /\ ~tw[k].gotMessage => tw[k].latestAgentMessage = ""
    /\ \A n \in NotifsData :
         Hears(k, n) =>
           LET v == After(n).tw[k]
               isMsg == n.method = "item/completed" /\ n.item = "agentMessage" /\ n.hasText
           IN  /\ v.aggregatedAgentDeltas =
                    IF n.method = "item/agentMessage/delta" /\ n.hasText
                      THEN tw[k].aggregatedAgentDeltas \o n.text
                      ELSE tw[k].aggregatedAgentDeltas
               /\ v.latestAgentMessage = IF isMsg THEN n.text ELSE tw[k].latestAgentMessage
               /\ v.gotMessage = (isMsg \/ tw[k].gotMessage)
               /\ n.method = "turn/completed" /\ n.status = "completed" =>
                    v.out.st = "ok" /\ v.out.text = ExpectedText(tw[k])

\* the last agent message accepted was empty and deltas were accepted
C7_Witness ==
  \E k \in Turns :
    /\ tw[k].out.st = "ok" /\ tw[k].gotMessage
    /\ tw[k].latestAgentMessage = "" /\ tw[k].aggregatedAgentDeltas # ""
    /\ tw[k].out.text = tw[k].aggregatedAgentDeltas

IsUsage(u) == Len(u) = 2 /\ u[1] \in Nat /\ u[2] \in Nat

\* C8 as stated: every successful resolution carries a usage object with a
\* numeric inputTokens and a numeric outputTokens.
C8_UsageObject ==
  \A k \in Submitted :
    turns[k].out.st = "ok" => IsUsage(turns[k].out.usage)

\* C8, amended: a successful resolution is {text, usage} where usage is null
\* when no token-usage event was accepted for the turn, and else an object
\* with two numeric counts.
C8_UsageNullOrCounts ==
  /\ \A k \in Turns :
       tw[k].out.st = "ok" =>
         /\ tw[k].out.usage = tw[k].usage
         /\ IF tw[k].gotUsage THEN IsUsage(tw[k].usage) ELSE tw[k].usage = <<>>
  /\ \A k \in Submitted :
       turns[k].out.st = "ok" =>
         turns[k].out.usage = <<>> \/ IsUsage(turns[k].out.usage)

\* a turn resolved without any token-usage event: its usage is null
C8_Witness ==
  \E k \in Submitted :
    turns[k].phase = "done" /\ turns[k].out.st = "ok" /\ turns[k].out.usage = <<>>

C9_State ==
  \A k \in Turns : \A n \in NotifsCore :
    n.method = "error" /\ Hears(k, n) =>
      LET r == After(n)
          v == r.tw[k]
      IN  IF ~n.willRetry
            THEN /\ v.settled /\ ~v.listening /\ ~v.timer
                 /\ v.out = Rejected(n.text)
                 /\ Resumed(k, r)
            ELSE /\ v = [tw[k] EXCEPT !.turnId = bound(tw[k], n)]
                 /\ r.micro = micro

\* C9: an error event that the waiter of the active turn accepts settles it
\* at once as an error with the message of the event when willRetry is not
\* set, and the caller of queueTurn gets that outcome; when willRetry is
\* set the waiter stays unsettled, with its texts and usage as they were.
C9_ErrorEventSettles == [](C9_State) /\ [][DeliversStep]_vars

\* the error of an event has been delivered to the caller
C9_Witness ==
  \E k \in Submitted : turns[k].phase = "done" /\ turns[k].out = Rejected("boom")

C10_State ==
  \A k \in Turns :
    /\ tw[k].live /\ ~tw[k].settled => tw[k].timer
    /\ tw[k].timer =>
         /\ ~tw[k].settled /\ tw[k].out.st = "none"
         /\ LET r == turnTimeout(St, k)
                v == r.tw[k]
            IN  /\ v.settled /\ ~v.listening /\ ~v.timer
                /\ v.out = Rejected(TimedOutMsg)
                /\ Resumed(k, r)
                /\ \A n \in NotifsCore : emitNotification(r, n) = r

C10_Step ==
  \A k \in Submitted :
    tw[k].out = Rejected(TimedOutMsg) /\ turns'[k].phase = "done" /\ turns[k].phase = "wait" =>
      turns'[k].out = Rejected(TimedOutMsg)

\* C10: as long as no terminal event has been accepted the deadline timer of
\* the turn is running; when it fires the turn is rejected with "Turn timed
\* out after Nms.", the listener is off, and from then on no event has any
\* effect.
C10_DeadlineRejects == [](C10_State) /\ [][C10_Step]_vars

\* a turn ended by its deadline
C10_Witness ==
  \E k \in Submitted : turns[k].phase = "done" /\ turns[k].out = Rejected(TimedOutMsg)

\* ----------------------------------------------------------------------
\* the run has used up the request ids or the processes of the model
Blocked(r) == r.over \/ r.requestCounter > MaxReq + 1

OutOfBounds ==
  /\ micro # <<>>
  /\ \A ok \in BOOLEAN :
       Blocked(runJob([St EXCEPT !.micro = Tail(@)], Head(micro), ok))

Started(k) == Len(turns) >= k /\ turns[k].phase # "queued"
Done(k) == Len(turns) >= k /\ turns[k].phase = "done"

\* C11: every turn submitted to queueTurn is started and has its outcome
\* delivered, whatever became of the turns before it (resolved, rejected by
\* an event, timed out, readiness failed): a rejected turn passes the queue
\* on.
C11_EveryTurnDelivered ==
  \A k \in Turns :
    /\ (Len(turns) >= k) ~> (Started(k) \/ OutOfBounds)
    /\ (Len(turns) >= k) ~> (Done(k) \/ OutOfBounds)

\* ----------------------------------------------------------------------
Alive(c) == proc[c] \in {"run", "killed"}

\* C12: there are never two processes spawned and not yet exited while the
\* client holds one of them, and no running process is without the client
\* holding its handle.
C12_OneLiveSession ==
  /\ child # 0 => \A c \in Children : Alive(c) => c = child
  /\ \A c \in Children : proc[c] = "run" => child = c

\* ensureReady() is returning without error to the caller whose continuation
\* is the next promise job
Returning ==
  micro # <<>> /\ Head(micro).k = "ret" /\ Head(micro).out.st = "ok"

\* C13: whenever ensureReady() returns without error, the client holds a
\* process that runs and is not killed, and a thread id is set.
C13_ReturnsReady == Returning => Ready

\* ----------------------------------------------------------------------
RejectedWith(r, id, msg) ==
  /\ r.fired[id] = 1
  /\ \E i \in DOMAIN r.micro :
       r.micro[i].k = "req" /\ r.micro[i].id = id /\ r.micro[i].out = Err(msg)

\* C14: in every state stop() sets isStopping, rejects each pending request
\* once with the shutdown error and fires no other, leaves no entry and no
\* timer, closes the reader, signals the process it holds and drops it; a
\* second stop(), at once or at any later time, changes nothing.
C14_StopOnce ==
  LET r == stop(St) IN
  /\ r.isStopping
  /\ r.pendingRequests = Empty /\ r.reqTimers = Empty
  /\ \A id \in ReqIds :
       IF id \in DOMAIN pendingRequests
         THEN RejectedWith(r, id, ShutdownMsg)
         ELSE r.fired[id] = fired[id]
  /\ Len(r.micro) = Len(micro) + Cardinality(DOMAIN pendingRequests)
  /\ r.readline = 0 /\ r.child = 0 /\ r.threadId = 0
  /\ child # 0 /\ proc[child] = "run" => r.proc[child] = "killed"
  /\ stop(r) = r
  /\ isStopping => r = St

\* stop() has rejected a pending request and signalled the process
C14_Witness ==
  /\ isStopping /\ child = 0 /\ pendingRequests = Empty
  /\ \E c \in Children : proc[c] = "killed"
  /\ \E i \in DOMAIN micro : micro[i].k = "req" /\ micro[i].out = Err(ShutdownMsg)

\* C15: once stop() has been called the flag stays set and no step spawns a
\* child process: not a restart timer scheduled by an earlier exit, not the
\* exit caused by the stop (it schedules no timer), not a later readiness
\* attempt or queued turn.
C15_StopIsTerminal ==
  [][isStopping =>
       /\ isStopping'
       /\ \A c \in Children : proc[c] = "none" => proc'[c] = "none"
       /\ child' = 0
       /\ restartTimers' <= restartTimers]_vars

\* after stop() an attempt was made (by a timer or a turn) and refused,
\* and a process has exited, while a process could still be spawned
C15_Witness ==
  /\ isStopping
  /\ \E c \in Children : proc[c] = "exited"
  /\ \E c \in Children : proc[c] = "none"
  /\ \E i \in DOMAIN micro : micro[i].k = "start" /\ micro[i].out = Err(StoppingMsg)

IsRequest(x) == x > 0

Written == SelectSeq(wire, IsRequest)

Allocated == {id \in ReqIds : fired[id] > 0 \/ id \in DOMAIN pendingRequests
                                \/ \E i \in DOMAIN wire : wire[i] = id}

C17_State ==
  /\ \A i, j \in DOMAIN Written : i < j => Written[i] < Written[j]
  /\ \A id \in Allocated : id < requestCounter

C17_Step ==
  /\ requestCounter' >= requestCounter
  /\ Len(wire') >= Len(wire) /\ SubSeq(wire', 1, Len(wire)) = wire
  /\ \A i \in (Len(wire) + 1)..Len(wire') :
       IsRequest(wire'[i]) => wire'[i] >= requestCounter /\ wire'[i] < requestCounter'
  /\ \A id \in Allocated' \ Allocated : id >= requestCounter

\* C17: the request frames on the wire carry strictly increasing ids in the
\* order of the calls; every id in use (written, pending, or settled after a
\* failed write) is below the counter, the counter never goes back, and each
\* step only appends frames whose ids were allocated in that step, whatever
\* child is held and whether earlier writes failed.
C17_IdsIncrease == []C17_State /\ [][C17_Step]_vars

\* three requests were written to two processes, the first of which exited,
\* and a fourth request took an id although its write failed
C17_Witness ==
  /\ Len(Written) = 3 /\ requestCounter = 5 /\ fired[4] = 1
  /\ \A i \in DOMAIN wire : wire[i] # 4
  /\ \E c \in Children : proc[c] = "exited"
  /\ \E c \in Children : proc[c] = "failed"

Methods == {"initialize", "thread/start", "turn/start"}

\* the state after a request of owner `own` was refused by the write
WriteRefused(id, method, own) ==
  Enq([St EXCEPT !.requestCounter = id + 1, !.fired[id] = 1],
      Job("req", own, id, method, FALSE, Err(NotWritableMsg)))

\* C18: in every state where no process is held, or the held one is killed
\* or its stdin is not writable, a notification throws the not-writable
\* error to its caller and changes nothing; a request either throws the
\* not-running error and changes nothing, or takes an id and rejects the
\* caller's promise with the not-writable error; in both cases no frame is
\* written and the table and the timers are as before.
C18_SendFailsCleanly ==
  ~canWrite(St) /\ requestCounter <= MaxReq =>
    /\ sendNotification(St, "initialized") = [St EXCEPT !.exc = NotWritableMsg]
    /\ \A m \in Methods, own \in 0..MaxTurns :
         LET r == sendRequest(St, m, own, FALSE) IN
         /\ r.wire = wire /\ r.hs = hs
         /\ r.pendingRequests = pendingRequests /\ r.reqTimers = reqTimers
         /\ IF child = 0 \/ proc[child] = "killed"
              THEN r = [St EXCEPT !.exc = NotRunningMsg]
              ELSE r = WriteRefused(requestCounter, m, own)

\* the held process failed to spawn, and a request sent to it was refused
C18_Witness ==
  /\ child # 0 /\ proc[child] = "failed"
  /\ \E i \in DOMAIN micro :
       /\ micro[i].k = "req" /\ micro[i].out = Err(NotWritableMsg)
       /\ micro[i].id \notin DOMAIN pendingRequests
       /\ micro[i].id \notin DOMAIN reqTimers

\* the creator of the attempt is resumed by the rejected startPromise
AttemptFailed ==
  /\ micro # <<>> /\ Head(micro).k = "er" /\ Head(micro).id = 1
  /\ Head(micro).out.st = "err"

\* a step that creates a new startPromise
AttemptBegins == startPromise.st = "none" /\ startPromise'.st # "none"

Unspawned == child # 0 /\ proc[child] = "failed"

C19_Settled ==
  AttemptFailed => startPromise'.st = "none" /\ ~startReject' /\ threadId' = 0

C19_Fresh ==
  AttemptBegins /\ ~isStopping =>
    /\ Unspawned => child' # child /\ proc[child'] = "none" /\ proc'[child'] # "none"
    /\ \E i \in (Len(wire) + 1)..Len(wire') :
         wire'[i] = requestCounter /\ hs'.initialize = 1

\* C19: when an attempt fails, the continuation of ensureReady leaves no
\* attempt outstanding and no thread id; the next attempt spawns a process
\* when the one held could not be spawned, and writes a new initialize.
C19_FailedAttemptRetried == [][C19_Settled /\ C19_Fresh]_vars

\* C20: in every state, the exit of any live child (the one held or an older
\* one) clears the thread id, rejects each pending request once with the
\* process-exit error and no other, leaves no entry and no timer, and adds a
\* restart timer exactly when isStopping is false and autoRestart is true.
C20_ExitCleansUp ==
  \A c \in Children :
    Alive(c) /\ restartTimers < MaxTimers =>
      LET r == onExit(St, c) IN
      /\ r.threadId = 0
      /\ r.pendingRequests = Empty /\ r.reqTimers = Empty
      /\ \A id \in ReqIds :
           IF id \in DOMAIN pendingRequests
             THEN RejectedWith(r, id, ExitedMsg)
             ELSE r.fired[id] = fired[id]
      /\ Len(r.micro) = Len(micro) + Cardinality(DOMAIN pendingRequests)
      /\ r.restartTimers = restartTimers + (IF ~isStopping /\ autoRestart THEN 1 ELSE 0)

\* a process has exited with a request pending: the request was rejected with
\* the process-exit error and a restart is scheduled
C20_Witness ==
  /\ \E c \in Children : proc[c] = "exited"
  /\ threadId = 0 /\ pendingRequests = Empty /\ child = 0
  /\ restartTimers = 1 /\ autoRestart /\ ~isStopping
  /\ \E i \in DOMAIN micro : micro[i].k = "req" /\ micro[i].out = Err(ExitedMsg)

\* ----------------------------------------------------------------------
NewFrames == SubSeq(wire', Len(wire) + 1, Len(wire'))

\* the promise job about to run is the continuation of request `m`, answered
Resumes(m) ==
  /\ micro # <<>> /\ Head(micro).k = "req" /\ Head(micro).m = m
  /\ Head(micro).out.st = "ok"

NewRequests(m) ==
  {id \in DOMAIN pendingRequests' \ DOMAIN pendingRequests :
     pendingRequests'[id].method = m}

C21_Step ==
  /\ NewRequests("initialize") # {} =>
       AttemptBegins /\ NewFrames = <<requestCounter>>
  /\ (\E i \in DOMAIN NewFrames : NewFrames[i] = 0) =>
       Resumes("initialize") /\ NewFrames = <<0, requestCounter>>
  /\ NewRequests("thread/start") # {} =>
       /\ Resumes("initialize")
       /\ NewFrames = <<0, requestCounter>>
       /\ NewRequests("thread/start") = {requestCounter}
  /\ threadId' # 0 /\ threadId' # threadId =>
       Resumes("thread/start") /\ Head(micro).out.val = threadId'

C21_State ==
  \A i \in DOMAIN wire :
    wire[i] = 0 => i > 1 /\ i < Len(wire) /\ wire[i + 1] > wire[i - 1] /\ wire[i - 1] > 0

\* C21: a readiness attempt begins by writing "initialize"; "initialized" and
\* "thread/start" are written together, in that order, by the continuation of
\* an answered "initialize" and by nothing else; the thread id changes to a
\* non-null value only in the continuation of an answered "thread/start", to
\* the id that response carries.
C21_HandshakeOrder == []C21_State /\ [][C21_Step]_vars

\* a handshake has run to its end on the first process
C21_Witness ==
  /\ wire = <<1, 0, 2>> /\ threadId = 1
  /\ child = 1 /\ proc[1] = "run" /\ startPromise.st = "none"

\* the state with one more request pending, under an id not used so far
WithPending(o) ==
  LET info == [method |-> "turn/start", own |-> 0, stale |-> FALSE] IN
  [St EXCEPT !.pendingRequests = @ @@ (o :> info), !.reqTimers = @ @@ (o :> info)]

\* r is s after the timer of request id fired, and nothing else happened
OnlyTimedOut(s, r, id) ==
  /\ r.pendingRequests = Without(s.pendingRequests, id)
  /\ r.reqTimers = Without(s.reqTimers, id)
  /\ RejectedWith(r, id, TimedOutMethodMsg(s.reqTimers[id].method))
  /\ \A o \in ReqIds \ {id} : r.fired[o] = s.fired[o]
  /\ Len(r.micro) = Len(s.micro) + 1
  /\ SubSeq(r.micro, 1, Len(s.micro)) = s.micro
  /\ r.child = s.child /\ r.proc = s.proc /\ r.threadId = s.threadId
  /\ r.readline = s.readline /\ r.rlOpen = s.rlOpen
  /\ r.startPromise = s.startPromise /\ r.startWaiters = s.startWaiters
  /\ r.restartTimers = s.restartTimers /\ r.isStopping = s.isStopping
  /\ r.requestCounter = s.requestCounter /\ r.wire = s.wire
  /\ r.turns = s.turns /\ r.tw = s.tw

\* C22: in every state, when the timer of a pending request fires, that
\* request is rejected once with the timed-out error and leaves the table with
\* its timer; process handle, process, thread id, attempt, turns and every
\* other entry of the table are as before, also when another request is
\* pending next to it.
C22_TimeoutIsLocal ==
  \A id \in DOMAIN reqTimers :
    /\ OnlyTimedOut(St, requestTimeout(St, id), id)
    /\ \A o \in ReqIds :
         o >= requestCounter =>
           OnlyTimedOut(WithPending(o), requestTimeout(WithPending(o), id), id)

\* a turn/start request has timed out on a ready client: the process runs
\* on and the thread id is kept
C22_Witness ==
  /\ child # 0 /\ proc[child] = "run" /\ threadId # 0
  /\ pendingRequests = Empty
  /\ \E i \in DOMAIN micro :
       /\ micro[i].k = "req"
       /\ micro[i].out = Err(TimedOutMethodMsg("turn/start"))

Unknown(id) ==
  [kind |-> "serverRequest", id |-> id, method |-> "unknown/method", params |-> <<>>]

ErrorReply(id) ==
  [id |-> id,
   body |-> [kind |-> "error", decision |-> "", answers |-> NoAnswers, text |-> "",
             code |-> UnsupportedCode,
             message |-> "Unsupported server request method: unknown/method"]]

LineCanArrive == \E c \in rlOpen : Alive(c)

\* C23: in every state in which a line can be read, a server request with a
\* method the client does not know is answered with one error frame that
\* carries the request's id, the code -32000 and the method name, and nothing
\* else changes: process, thread id, table, turns and waiters are as before
\* and the program goes on.
C23_UnsupportedAnswered ==
  LineCanArrive =>
    \A id \in SrvIds :
      handleLine(St, Unknown(id)) = [St EXCEPT !.replies = Append(@, ErrorReply(id))]

\* the notification is for the thread of waiter w and does not disagree with
\* the turn id w is bound to
Belongs(w, n) ==
  /\ n.threadId = w.threadId
  /\ w.turnId = 0 \/ n.turnId = w.turnId

\* C24: in every state and for every notification, the listener of an active
\* turn changes nothing unless the notification is for the turn's thread and
\* the turn id is either not known yet or equal to the notification's; when
\* it accepts a notification before the turn id is known, the turn id becomes
\* the notification's, and a known turn id is never changed by a notification.
\* Waiters that are not listening are not touched.
C24_OnlyMatchingApplied ==
  \A n \in NotifsData :
    LET r == emitNotification(St, n) IN
    /\ (\A k \in Turns : tw[k].listening => ~Belongs(tw[k], n)) => r = St
    /\ \A k \in Turns :
         /\ ~tw[k].listening \/ ~Belongs(tw[k], n) => r.tw[k] = tw[k]
         /\ tw[k].listening /\ Belongs(tw[k], n) /\ r.tw[k] # NoWaiter =>
              r.tw[k].turnId = IF tw[k].turnId = 0 THEN n.turnId ELSE tw[k].turnId

\* a turn whose turn/start is not answered yet has learnt its turn id from a
\* notification and is still listening
C24_Witness ==
  \E k \in Submitted :
    /\ turns[k].phase = "start" /\ tw[k].listening
    /\ tw[k].turnId = 2 /\ tw[k].aggregatedAgentDeltas # ""

Zeroed(c) == IF c < 0 THEN 0 ELSE c

Counts(n) == <<Zeroed(n.inputTokens), Zeroed(n.outputTokens)>>

UsageEvents == {n \in NotifsData : n.method = "thread/tokenUsage/updated"}

C25_State ==
  \A k \in Turns :
    /\ \A n \in NotifsData :
         Hears(k, n) /\ After(n).tw[k] # NoWaiter =>
           /\ After(n).tw[k].usage = IF n \in UsageEvents THEN Counts(n) ELSE tw[k].usage
           /\ n.method = "turn/completed" /\ n.status = "completed" =>
                After(n).tw[k].out.st = "ok" /\ After(n).tw[k].out.usage = tw[k].usage
    /\ \A n, m \in UsageEvents :
         Hears(k, n) =>
           LET r == After(n)
               heard == n.threadId = m.threadId /\ accepts(r.tw[k], m)
           IN  heard => emitNotification(r, m).tw[k].usage = Counts(m)

\* C25: an accepted token-usage event replaces the usage snapshot of the turn
\* by its own two counts, 0 standing for a count it does not carry, whatever
\* the snapshot was (two events in a row leave the counts of the second); no
\* other event touches the snapshot; an accepted turn/completed with status
\* "completed" resolves the turn with the snapshot, and the caller of
\* queueTurn gets that outcome.
C25_LastUsageWins == []C25_State /\ [][DeliversStep]_vars

\* a turn was delivered with the counts of an event that carried no output count
C25_Witness ==
  \E k \in Submitted :
    /\ turns[k].phase = "done" /\ turns[k].out.st = "ok"
    /\ turns[k].out.usage = <<1, 0>>

\* turn/completed events: every status, also a missing one (""), with an
\* error detail, with an empty one, and with none
Completions ==
  {[Notif("turn/completed", th, tu, d[1], d[2]) EXCEPT !.status = st] :
     th \in Threads, tu \in TurnIds,
     st \in {"completed", "failed", "interrupted", ""},
     d \in {<<FALSE, "">>, <<TRUE, "">>, <<TRUE, "why">>}}

FailureText(n) ==
  "Turn " \o (IF n.status = "" THEN "unknown" ELSE n.status) \o ": "
          \o (IF n.hasText /\ n.text # "" THEN n.text ELSE "turn did not complete")

C26_State ==
  \A k \in Turns : \A n \in Completions :
    Hears(k, n) =>
      LET r == After(n)
          v == r.tw[k]
      IN  /\ v.settled /\ ~v.listening /\ ~v.timer
          /\ IF n.status = "completed"
               THEN v.out = Resolved(resultText(tw[k]), tw[k].usage)
               ELSE v.out = Rejected(FailureText(n))
          /\ Resumed(k, r)

\* C26: a turn/completed event that the waiter of the active turn accepts
\* settles it in the same call: resolved when the status is "completed",
\* rejected with "Turn <status or unknown>: <detail or turn did not complete>"
\* for any other status and for none; timer and listener are removed, and the
\* caller awaiting the waiter gets that outcome.
C26_CompletionSettles == []C26_State /\ [][DeliversStep]_vars

\* a turn/completed without the status "completed" and without detail has
\* been delivered as an error
C26_Witness ==
  \E k \in Submitted :
    /\ turns[k].phase = "done"
    /\ turns[k].out = Rejected("Turn interrupted: turn did not complete")

\* the state after the process answered request id with turn id v and the
\* continuation of the request ran, in a state with no promise job waiting
Answered(s, id, v) ==
  LET s1 == handleResponse(s, id, Ok(v)) IN
  runJob([s1 EXCEPT !.micro = Tail(@)], Head(s1.micro), TRUE)

SameOutcome(v, w) ==
  /\ v.out = w.out /\ v.settled = w.settled
  /\ v.latestAgentMessage = w.latestAgentMessage
  /\ v.aggregatedAgentDeltas = w.aggregatedAgentDeltas
  /\ v.usage = w.usage

\* C27: a notification that carries the turn id of another turn makes no
\* difference to a turn: when it arrives on the turn's thread after turn/start
\* was written and before the response binds the turn id, the waiter has,
\* once the response has bound its id, the outcome, texts and usage it would
\* have without that notification.
C27_OnlyOwnNotifications ==
  \A k \in Submitted : \A id \in DOMAIN pendingRequests :
    /\ micro = <<>> /\ turns[k].phase = "start"
    /\ pendingRequests[id].method = "turn/start" /\ pendingRequests[id].own = k
    /\ tw[k].listening /\ tw[k].turnId = 0
    => \A n \in NotifsData : \A v \in TurnIds \ {0} :
         n.threadId = tw[k].threadId /\ n.turnId # 0 /\ n.turnId # v =>
           /\ Answered(After(n), id, v).tw[k].turnId = v
           /\ SameOutcome(Answered(After(n), id, v).tw[k], Answered(St, id, v).tw[k])

\* C28: the exit event of a child that has been replaced leaves the newer
\* session as it is: the handle and the thread id stay, no pending request is
\* rejected or removed, and no restart is scheduled.
C28_StaleExitHarmless ==
  \A c \in Children :
    Alive(c) /\ child # 0 /\ c # child /\ restartTimers < MaxTimers =>
      LET r == onExit(St, c) IN
      /\ r.child = child /\ r.threadId = threadId
      /\ r.pendingRequests = pendingRequests /\ r.reqTimers = reqTimers
      /\ r.fired = fired /\ r.micro = micro
      /\ r.restartTimers = restartTimers

\* C29: whenever this.threadId is set, a child handle is held and that child
\* has not been killed.
C29_ThreadIdHasLiveChild ==
  threadId # 0 => child # 0 /\ proc[child] # "killed"

====
